---- MODULE Spec2Model ----
(***************************************************************************)
(* DocTracker: the create-document page (CreateDocument.jsx), the document *)
(* details page (DocumentDetails.jsx) and the tables they read and write   *)
(* (supabase_schema.sql), as one state machine.                            *)
(*                                                                         *)
(* One browser session of one signed-in user is modelled.  A handler runs  *)
(* to completion in one step; every remote call of a handler may return an *)
(* error, chosen nondeterministically (the set `fails` of an action).      *)
(* A second part (the sessions) runs the details page step by step: each   *)
(* handler call is a record in `calls` that advances by one remote call at *)
(* a time, so calls of one or of several sessions overlap.                 *)
(* Columns that are only carried from the form to the row and never read   *)
(* by any handler (description, file_url, position, email, phone,          *)
(* metadata, created_at, updated_at) are left out of the rows.             *)
(***************************************************************************)
EXTENDS Integers, Sequences, FiniteSets, TLC

(* ------------------------------ bounds -------------------------------- *)
\* rows the documents table may hold
MaxDocs == 1
\* entries of the signatories field array of the creation form
MaxSigs == 2
\* rows the document_activity table may hold
MaxActivity == 3
\* last instant of the clock
MaxTime == 1
\* longest signatory list of the progress specification
MaxTotal == 40
\* length of the one long list of the progress specification
LargeTotal == 200
\* handler calls the users of the sessions may start
MaxStarted == 2

(* ------------------------- values and helpers ------------------------- *)
\* SQL NULL / JS null; a present value v of a nullable column is <<v>>
Null == <<>>

Some(v) == <<v>>

\* the signed-in user (useAuth().user.id): an id is the sequence of its
\* characters, all ids of one length and none holding "/" or "."
User == <<"u", "1">>

Roles == {"admin", "member"}

Statuses == {"pending", "in_progress", "completed", "rejected"}

\* a name is the sequence of its characters
SP == " "

SigNames == {<<>>, <<SP>>, <<"A">>, <<SP, "B">>}

DocNames == {"", "ab", "Field Trip Form"}

\* String.prototype.trim on a sequence of characters
RECURSIVE TrimLeft(_)
TrimLeft(s) == IF s # <<>> /\ Head(s) = SP THEN TrimLeft(Tail(s)) ELSE s

RECURSIVE TrimRight(_)
TrimRight(s) ==
  IF s # <<>> /\ s[Len(s)] = SP THEN TrimRight(SubSeq(s, 1, Len(s) - 1)) ELSE s

Trim(s) == TrimRight(TrimLeft(s))

Reverse(s) == [i \in 1..Len(s) |-> s[Len(s) + 1 - i]]

\* Array.prototype.every / filter(...).length on is_signed
AllSigned(sigs) == \A i \in 1..Len(sigs) : sigs[i].is_signed

SignedCount(sigs) == Len(SelectSeq(sigs, LAMBDA r : r.is_signed))

VARIABLES
  \* ---- the tables and the bucket (supabase_schema.sql)
  documents,            \* sequence of rows, in insertion order
  document_signatories, \* sequence of rows, in insertion order
  document_activity,    \* sequence of rows, in insertion order
  storage,              \* set of objects of bucket 'documents'
  \* ---- the environment
  now,                  \* the clock read by new Date() / Date.now()
  role,                 \* profile.role of the signed-in user
  \* ---- the browser session
  page,                 \* which page component is mounted
  uploadedFile,         \* CreateDocument: useState(null)
  id,                   \* DocumentDetails: useParams().id
  document,             \* DocumentDetails: useState(null)
  signatories,          \* DocumentDetails: useState([])
  activity,             \* DocumentDetails: useState([])
  loading,              \* the mounted page's loading flag
  toast,                \* the toasts the last handler showed, in order
  setUploading,         \* the values the last handler passed to setUploading
  \* ---- the details page step by step, in one or more sessions
  document_comments,    \* sequence of rows, in insertion order
  views,                \* the component state of each mounted DocumentDetails
  calls,                \* the handler calls that have not returned yet
  started               \* how many handler calls the users have started

vars == <<documents, document_signatories, document_activity, storage, now, role,
          page, uploadedFile, id, document, signatories, activity, loading,
          toast, setUploading, document_comments, views, calls, started>>

sessionVars == <<document_comments, views, calls, started>>

pageVars == <<storage, now, role, page, uploadedFile, id, document, signatories,
              activity, loading, toast, setUploading>>

dbVars == <<documents, document_signatories, document_activity>>

detailVars == <<id, document, signatories, activity>>

(* ------------------------------ the tables ---------------------------- *)
\* INSERT INTO documents: the columns the insert does not name take the
\* column DEFAULT; id is a fresh key
DocumentRow(name, file, by, requires) ==
  [id |-> Len(documents) + 1,
   name |-> name,
   file_name |-> file.name,
   created_by |-> by,
   requires_admin_approval |-> requires,
   admin_approved |-> Some(FALSE),
   admin_approved_by |-> Null,
   admin_approved_at |-> Null,
   status |-> "pending"]

\* INSERT INTO document_signatories of one mapped form entry; signed_at and
\* notes are not named by the insert and default to NULL
SignatoryRow(k, docId, name, index) ==
  [id |-> Len(document_signatories) + k,
   document_id |-> docId,
   name |-> name,
   is_signed |-> FALSE,
   signed_at |-> Null,
   notes |-> Null,
   order_index |-> index]

ActivityRow(docId, by, action) ==
  [document_id |-> docId, user_id |-> by, action |-> action]

RowsOf(table, docId) == SelectSeq(table, LAMBDA r : r.document_id = docId)

\* .order('order_index'): a stable insertion sort, ascending
RECURSIVE InsertByOrder(_, _)
InsertByOrder(sorted, r) ==
  IF sorted = <<>> THEN <<r>>
  ELSE IF sorted[Len(sorted)].order_index <= r.order_index THEN Append(sorted, r)
  ELSE Append(InsertByOrder(SubSeq(sorted, 1, Len(sorted) - 1), r),
              sorted[Len(sorted)])

RECURSIVE OrderByIndex(_)
OrderByIndex(rows) ==
  IF rows = <<>> THEN <<>>
  ELSE InsertByOrder(OrderByIndex(SubSeq(rows, 1, Len(rows) - 1)), rows[Len(rows)])

DocIds == {documents[i].id : i \in 1..Len(documents)}

DocById(docs, d) == docs[CHOOSE i \in 1..Len(docs) : docs[i].id = d]

(* ----------------------- DocumentDetails.jsx --------------------------- *)
\* the four selects of fetchDocumentDetails against the tables (docs, sigs,
\* acts): the row, the signatories by order_index, the activity newest first
FetchedDocument(docs, d) == Some(DocById(docs, d))

FetchedSignatories(sigs, d) == OrderByIndex(RowsOf(sigs, d))

FetchedActivity(acts, d) == Reverse(RowsOf(acts, d))

\* a row update that stamps signed_at whatever the flag is
SignedAtAlways(isSigned, t) == Some(t)

\* the row update of updateSignatureStatus:
\* signed_at: isSigned ? new Date().toISOString() : null
SignedAtFor(isSigned, t) == IF isSigned THEN Some(t) ELSE Null

\* an update that leaves the notes column alone
UpdateSignatoryRowsKeepsNotes(table, signatoryId, isSigned, notes, t) ==
  [i \in 1..Len(table) |->
     IF table[i].id = signatoryId
     THEN [table[i] EXCEPT !.is_signed = isSigned,
                           !.signed_at = SignedAtFor(isSigned, t)]
     ELSE table[i]]

\* an update of every signatory row of the same document
UpdateSignatoryRowsOfDocument(table, signatoryId, isSigned, notes, t) ==
  LET d == table[CHOOSE i \in 1..Len(table) : table[i].id = signatoryId].document_id
  IN [i \in 1..Len(table) |->
        IF table[i].document_id = d
        THEN [table[i] EXCEPT !.is_signed = isSigned,
                              !.signed_at = SignedAtFor(isSigned, t),
                              !.notes = Some(notes)]
        ELSE table[i]]

UpdateSignatoryRows(table, signatoryId, isSigned, notes, t) ==
  [i \in 1..Len(table) |->
     IF table[i].id = signatoryId
     THEN [table[i] EXCEPT !.is_signed = isSigned,
                           !.signed_at = SignedAtFor(isSigned, t),
                           !.notes = Some(notes)]
     ELSE table[i]]

\* updatedSignatories: the rendered list with the one flag replaced
UpdatedSignatories(sigs, signatoryId, isSigned) ==
  [i \in 1..Len(sigs) |->
     IF sigs[i].id = signatoryId THEN [sigs[i] EXCEPT !.is_signed = isSigned]
     ELSE sigs[i]]

\* a gate that looks at the signatures only
StatusGateAllSigned(updated, doc) == AllSigned(updated)

\* allSigned && document.admin_approved !== false
StatusGate(updated, doc) == AllSigned(updated) /\ doc.admin_approved # Some(FALSE)

SetStatus(docs, d, s) ==
  [i \in 1..Len(docs) |-> IF docs[i].id = d THEN [docs[i] EXCEPT !.status = s]
                          ELSE docs[i]]

\* an update that also completes the document it approves
ApprovalDataCompletes(row, approved, by, t) ==
  [row EXCEPT !.admin_approved = Some(approved),
              !.admin_approved_by = Some(by),
              !.admin_approved_at = Some(t),
              !.status = IF approved THEN "completed" ELSE row.status]

\* updateData of handleAdminApproval, applied to a row
ApprovalData(row, approved, by, t) ==
  [row EXCEPT !.admin_approved = Some(approved),
              !.admin_approved_by = Some(by),
              !.admin_approved_at = Some(t)]

UpdateApproval(docs, d, approved, by, t) ==
  [i \in 1..Len(docs) |-> IF docs[i].id = d THEN ApprovalData(docs[i], approved, by, t)
                          ELSE docs[i]]

\* the page shows the signatory list only with the document loaded
DetailsShown == page = "details" /\ ~loading /\ document # Null

(* The arithmetic of getSignatureProgress is JavaScript's: a Number is an  *)
(* IEEE 754 double, and the quotient and the product are each rounded to   *)
(* 53 significant bits (ties to even) before Math.round sees the value.    *)
(* A positive double is [a, b, c, exp]: the 53-bit significand             *)
(* m = a * 2^36 + b * 2^18 + c, with 2^16 <= a < 2^17 and b, c < 2^18, and *)
(* the value m * 2^(exp - 52); zero has a = b = c = 0.                     *)
Limb == 2 ^ 18

TopOne == 2 ^ 16

DoubleZero == [a |-> 0, b |-> 0, c |-> 0, exp |-> 0]

\* the significand plus one unit in the last place when `up`, renormalized
RoundUp(a, b, c, exp, up) ==
  IF ~up THEN [a |-> a, b |-> b, c |-> c, exp |-> exp]
  ELSE IF c + 1 < Limb THEN [a |-> a, b |-> b, c |-> c + 1, exp |-> exp]
  ELSE IF b + 1 < Limb THEN [a |-> a, b |-> b + 1, c |-> 0, exp |-> exp]
  ELSE IF a + 1 < 2 * TopOne THEN [a |-> a + 1, b |-> 0, c |-> 0, exp |-> exp]
  ELSE [a |-> TopOne, b |-> 0, c |-> 0, exp |-> exp + 1]

\* the least z with k * 2^z >= n, for 1 <= k <= n
RECURSIVE ShiftFor(_, _)
ShiftFor(k, n) == IF k >= n THEN 0 ELSE 1 + ShiftFor(2 * k, n)

\* k / n for integers 0 <= k <= n, 1 <= n < 2^12: long division of
\* k * 2^z / n in [1, 2) to 52 fraction bits, then round to nearest, ties
\* to even
DoubleDiv(k, n) ==
  IF k = 0 THEN DoubleZero
  ELSE LET z == ShiftFor(k, n)
           r0 == k * (2 ^ z) - n
           a == TopOne + ((r0 * TopOne) \div n)
           r1 == (r0 * TopOne) % n
           b == (r1 * Limb) \div n
           r2 == (r1 * Limb) % n
           c == (r2 * Limb) \div n
           r3 == (r2 * Limb) % n
           up == 2 * r3 > n \/ (2 * r3 = n /\ c % 2 = 1)
       IN RoundUp(a, b, c, 0 - z, up)

\* the bits of t beyond 17, for t >= 2^16
RECURSIVE ExtraBits(_)
ExtraBits(t) == IF t < 2 * TopOne THEN 0 ELSE 1 + ExtraBits(t \div 2)

\* x * f for a double x and an integer 1 <= f < 2^7: the exact product,
\* rounded to nearest, ties to even
DoubleTimes(x, f) ==
  IF x.a = 0 THEN DoubleZero
  ELSE LET pc == x.c * f
           pb == (x.b * f) + (pc \div Limb)
           t == (x.a * f) + (pb \div Limb)
           b1 == pb % Limb
           c1 == pc % Limb
           d == ExtraBits(t)
           unit == 2 ^ d
           a2 == t \div unit
           b2 == ((t % unit) * Limb + b1) \div unit
           c2 == ((b1 % unit) * Limb + c1) \div unit
           dropped == c1 % unit
           up == 2 * dropped > unit \/ (2 * dropped = unit /\ c2 % 2 = 1)
       IN RoundUp(a2, b2, c2, x.exp + d, up)

\* Math.round(x) for a double 0 <= x < 2^16: the nearest integer, a tie
\* going up
MathRound(x) ==
  IF x.a = 0 \/ x.exp < 0 - 1 THEN 0
  ELSE IF x.exp = 0 - 1 THEN 1
  ELSE (x.a \div (2 ^ (16 - x.exp))) + ((x.a \div (2 ^ (15 - x.exp))) % 2)

\* Math.round((completed / total) * 100)
Percentage(completed, total) ==
  MathRound(DoubleTimes(DoubleDiv(completed, total), 100))

\* the percentage the page renders; completedSignatures is counted once
\* and bound, as the const of the source is
getSignatureProgress ==
  IF Len(signatories) = 0 THEN 0
  ELSE CHOOSE p \in {Percentage(completedSignatures, Len(signatories)) :
                       completedSignatures \in {SignedCount(signatories)}} : TRUE

\* what the page shows as "Progress: ..%": the spinner or "Document not
\* found" replaces the whole page while loading or without a document
Progress == IF DetailsShown THEN Some(getSignatureProgress) ELSE Null

\* the trailing fetchDocumentDetails() of a handler, whose own setState calls
\* left (doc, sigs, acts) and whose writes left the tables (docs2, sigs2,
\* acts2): all four lists are replaced, or none is when a select fails
Refresh(fetchFails, doc, sigs, docs2, sigs2, acts2) ==
  /\ document' = IF fetchFails THEN doc ELSE FetchedDocument(docs2, id)
  /\ signatories' = IF fetchFails THEN sigs ELSE FetchedSignatories(sigs2, id)
  /\ activity' = IF fetchFails THEN activity ELSE FetchedActivity(acts2, id)
  /\ loading' = FALSE

\* a route change to /document/:id mounts DocumentDetails, whose effect
\* runs fetchDocumentDetails
OpenDocument(d, fails) ==
  /\ d \in DocIds
  /\ fails \subseteq {"fetch"}
  /\ page' = "details"
  /\ id' = d
  /\ uploadedFile' = Null
  /\ document' = IF fails # {} THEN Null ELSE FetchedDocument(documents, d)
  /\ signatories' = IF fails # {} THEN <<>> ELSE FetchedSignatories(document_signatories, d)
  /\ activity' = IF fails # {} THEN <<>> ELSE FetchedActivity(document_activity, d)
  /\ loading' = FALSE
  /\ toast' = IF fails # {} THEN <<"Failed to load document details">> ELSE <<>>
  /\ setUploading' = <<>>
  /\ UNCHANGED <<dbVars, storage, now, role>>
  /\ UNCHANGED sessionVars

\* a handler that patches the rendered list before the row update answers
updateSignatureStatusOptimistic(signatoryId, isSigned, notes, fails) ==
  /\ DetailsShown
  /\ Len(document_activity) < MaxActivity
  /\ fails = {"signatory"}
  /\ signatories' = [i \in 1..Len(signatories) |->
                       IF signatories[i].id = signatoryId
                       THEN [signatories[i] EXCEPT !.is_signed = isSigned,
                                                   !.signed_at = SignedAtFor(isSigned, now),
                                                   !.notes = Some(notes)]
                       ELSE signatories[i]]
  /\ toast' = <<"Failed to update signature status">>
  /\ setUploading' = <<>>
  /\ UNCHANGED <<dbVars, document, activity, loading, storage, now, role, page,
                 uploadedFile, id>>
  /\ UNCHANGED sessionVars

updateSignatureStatus(signatoryId, isSigned, notes, fails) ==
  LET doc == document[1]
      updated == UpdatedSignatories(signatories, signatoryId, isSigned)
      gate == StatusGate(updated, doc)
      made == IF "signatory" \in fails THEN {"signatory"}
              ELSE {"signatory", "activity", "fetch"}
                     \cup (IF gate THEN {"status"} ELSE {})
      docs2 == IF gate /\ "status" \notin fails
               THEN SetStatus(documents, id, "completed") ELSE documents
      sigs2 == UpdateSignatoryRows(document_signatories, signatoryId, isSigned, notes, now)
      acts2 == IF "activity" \in fails THEN document_activity
               ELSE Append(document_activity,
                           ActivityRow(id, User, IF isSigned THEN "signature_added"
                                                 ELSE "signature_removed"))
      localSigs == [i \in 1..Len(signatories) |->
                      IF signatories[i].id = signatoryId
                      THEN [signatories[i] EXCEPT !.is_signed = isSigned,
                                                  !.signed_at = SignedAtFor(isSigned, now),
                                                  !.notes = Some(notes)]
                      ELSE signatories[i]]
      localDoc == IF gate THEN Some([doc EXCEPT !.status = "completed"]) ELSE document
  IN
  /\ DetailsShown
  /\ Len(document_activity) < MaxActivity
  /\ fails \subseteq made
  /\ IF "signatory" \in fails
     THEN /\ toast' = <<"Failed to update signature status">>
          /\ UNCHANGED <<dbVars, document, signatories, activity, loading>>
     ELSE /\ document_signatories' = sigs2
          /\ documents' = docs2
          /\ document_activity' = acts2
          /\ Refresh("fetch" \in fails, localDoc, localSigs, docs2, sigs2, acts2)
          /\ toast' = <<IF isSigned THEN "Signature added successfully"
                        ELSE "Signature removed successfully">>
                    \o (IF "fetch" \in fails THEN <<"Failed to load document details">> ELSE <<>>)
  /\ setUploading' = <<>>
  /\ UNCHANGED <<storage, now, role, page, uploadedFile, id>>
  /\ UNCHANGED sessionVars

\* the "Mark as Signed" button of an unsigned signatory of the rendered list
MarkAsSigned(i, fails) ==
  /\ i \in 1..Len(signatories)
  /\ ~signatories[i].is_signed
  /\ updateSignatureStatus(signatories[i].id, TRUE, "", fails)

\* the "Undo" button of a signed signatory of the rendered list
Undo(i, fails) ==
  /\ i \in 1..Len(signatories)
  /\ signatories[i].is_signed
  /\ updateSignatureStatus(signatories[i].id, FALSE, "", fails)

\* the approve and reject buttons are rendered in this branch only
ApprovalOffered ==
  /\ DetailsShown
  /\ document[1].requires_admin_approval
  /\ document[1].admin_approved = Null
  /\ role = "admin"

handleAdminApproval(approved, fails) ==
  LET made == IF "update" \in fails THEN {"update"} ELSE {"update", "activity", "fetch"}
      docs2 == UpdateApproval(documents, id, approved, User, now)
      acts2 == IF "activity" \in fails THEN document_activity
               ELSE Append(document_activity,
                           ActivityRow(id, User, IF approved THEN "admin_approved"
                                                 ELSE "admin_rejected"))
      localDoc == Some(ApprovalData(document[1], approved, User, now))
  IN
  /\ ApprovalOffered
  /\ Len(document_activity) < MaxActivity
  /\ fails \subseteq made
  /\ IF "update" \in fails
     THEN /\ toast' = <<"Failed to update admin approval">>
          /\ UNCHANGED <<dbVars, document, signatories, activity, loading>>
     ELSE /\ documents' = docs2
          /\ document_activity' = acts2
          /\ UNCHANGED document_signatories
          /\ Refresh("fetch" \in fails, localDoc, signatories, docs2,
                     document_signatories, acts2)
          /\ toast' = <<IF approved THEN "Document approved successfully"
                        ELSE "Document rejected successfully">>
                    \o (IF "fetch" \in fails THEN <<"Failed to load document details">> ELSE <<>>)
  /\ setUploading' = <<>>
  /\ UNCHANGED <<storage, now, role, page, uploadedFile, id>>
  /\ UNCHANGED sessionVars

(* ------------------------ CreateDocument.jsx --------------------------- *)
\* a limit of ten million bytes
MaxFileBytesDecimal == 10 * 1000 * 1000

\* 10 * 1024 * 1024
MaxFileBytes == 10 * 1024 * 1024

\* a picked file: its name as the parts between the dots, and its size
Files == {[name |-> <<"form", "pdf">>, size |-> s] :
            s \in {MaxFileBytes - 1, MaxFileBytes, MaxFileBytes + 1}}

\* file.name.split('.').pop()
FileExt(name) == name[Len(name)]

\* String(n) of a natural number: its decimal digits
Digit(d) == <<"0", "1", "2", "3", "4", "5", "6", "7", "8", "9">>[d + 1]

RECURSIVE Decimal(_)
Decimal(n) == IF n < 10 THEN <<Digit(n)>> ELSE Append(Decimal(n \div 10), Digit(n % 10))

\* a path made of the user's id and the extension only
StoragePathByUser(by, t, ext) == by \o <<"/", "file", ".", ext>>

\* `${user.id}/${Date.now()}.${fileExt}`: the characters of the id, a slash,
\* the digits of the clock, a dot, the extension
StoragePath(by, t, ext) == by \o <<"/">> \o Decimal(t) \o <<".", ext>>

\* .upload(fileName, file) accepted: the bucket holds one object per name,
\* with the uploader and the instant it was stored
PutObject(bucket, name, by, t) ==
  {o \in bucket : o.name # name} \cup {[name |-> name, owner |-> by, created_at |-> t]}

\* .remove([path])
RemoveObject(bucket, name) == {o \in bucket : o.name # name}

\* getPublicUrl(fileName): the bucket's public address of the path
PublicUrl(path) == <<"public", "documents">> \o path

handleFileUpload(file, fails) ==
  LET fileName == StoragePath(User, now, FileExt(file.name))
      tooBig == file.size > MaxFileBytes
      made == IF tooBig THEN {} ELSE {"upload"}
  IN
  /\ page = "create"
  /\ uploadedFile = Null
  /\ fails \subseteq made
  /\ IF tooBig \/ "upload" \in fails
     THEN /\ toast' = IF tooBig THEN <<"File size must be less than 10MB">>
                       ELSE <<"Failed to upload file">>
          /\ UNCHANGED <<storage, uploadedFile>>
     ELSE /\ storage' = PutObject(storage, fileName, User, now)
          /\ uploadedFile' = Some([name |-> file.name, url |-> PublicUrl(fileName),
                                   path |-> fileName])
          /\ toast' = <<"File uploaded successfully">>
  /\ setUploading' = IF tooBig THEN <<>> ELSE <<TRUE, FALSE>>
  /\ UNCHANGED <<dbVars, now, role, page, detailVars, loading>>
  /\ UNCHANGED sessionVars

\* a removal that keeps the reference when the delete call fails
removeFileKeepsOnError(fails) ==
  /\ page = "create"
  /\ uploadedFile # Null
  /\ fails \subseteq {"remove"}
  /\ storage' = IF "remove" \in fails THEN storage
                ELSE RemoveObject(storage, uploadedFile[1].path)
  /\ uploadedFile' = IF "remove" \in fails THEN uploadedFile ELSE Null
  /\ toast' = <<>>
  /\ setUploading' = <<>>
  /\ UNCHANGED <<dbVars, now, role, page, detailVars, loading>>
  /\ UNCHANGED sessionVars

removeFile(fails) ==
  /\ page = "create"
  /\ uploadedFile # Null
  /\ fails \subseteq {"remove"}
  /\ storage' = IF "remove" \in fails THEN storage
                ELSE RemoveObject(storage, uploadedFile[1].path)
  /\ uploadedFile' = Null
  /\ toast' = <<>>
  /\ setUploading' = <<>>
  /\ UNCHANGED <<dbVars, now, role, page, detailVars, loading>>
  /\ UNCHANGED sessionVars

\* the values of the form: data.name, data.requires_admin_approval and
\* data.signatories (the name of each entry)
FormData == [name : DocNames, requires_admin_approval : BOOLEAN,
             signatories : UNION {[1..n -> SigNames] : n \in 1..MaxSigs}]

\* rules that only require the name, with no minimum length
FormValidRequiredOnly(data) ==
  /\ Len(data.name) >= 1
  /\ \A i \in 1..Len(data.signatories) : data.signatories[i] # <<>>

\* the register() rules: name required with minLength 3, each
\* signatories[i].name required
FormValid(data) ==
  /\ Len(data.name) >= 3
  /\ \A i \in 1..Len(data.signatories) : data.signatories[i] # <<>>

\* a filter that keeps every entry
NamedSignatoriesAll(names) == names

\* .filter(sig => sig.name.trim())
NamedSignatories(names) == SelectSeq(names, LAMBDA n : Trim(n) # <<>>)

\* a map that numbers the entries from 1
SignatoryDataFromOne(names, docId) ==
  [i \in 1..Len(NamedSignatories(names)) |->
     SignatoryRow(i, docId, NamedSignatories(names)[i], i)]

\* .map((sig, index) => ({document_id, name, order_index: index, is_signed: false}))
SignatoryData(names, docId) ==
  [i \in 1..Len(NamedSignatories(names)) |->
     SignatoryRow(i, docId, NamedSignatories(names)[i], i - 1)]

\* a submit that logs the creation before it looks for the file
onSubmitLogsFirst(data, fails) ==
  /\ page = "create"
  /\ ~loading
  /\ Len(document_activity) < MaxActivity
  /\ FormValid(data)
  /\ fails = {}
  /\ uploadedFile = Null
  /\ document_activity' = Append(document_activity, ActivityRow(0, User, "created"))
  /\ toast' = <<"Please upload a document file">>
  /\ setUploading' = <<>>
  /\ UNCHANGED <<documents, document_signatories, storage, now, role, page, uploadedFile,
                 detailVars, loading>>
  /\ UNCHANGED sessionVars

\* a submit that does not look at the error of the document insert: it
\* goes on to log the creation and to report success
onSubmitIgnoresDocError(data, fails) ==
  /\ page = "create"
  /\ ~loading
  /\ Len(document_activity) < MaxActivity
  /\ FormValid(data)
  /\ fails = {"document"}
  /\ uploadedFile # Null
  /\ document_activity' = Append(document_activity, ActivityRow(Null, User, "created"))
  /\ toast' = <<"Document tracker created successfully!">>
  /\ setUploading' = <<>>
  /\ UNCHANGED <<documents, document_signatories, storage, now, role, page, uploadedFile,
                 detailVars, loading>>
  /\ UNCHANGED sessionVars

\* a submit that deletes the document row again when the signatory insert
\* fails
onSubmitRollsBack(data, fails) ==
  /\ page = "create"
  /\ ~loading
  /\ uploadedFile # Null
  /\ Len(documents) < MaxDocs
  /\ FormValid(data)
  /\ Len(SignatoryData(data.signatories, 1)) > 0
  /\ fails = {"signatories"}
  /\ toast' = <<"Failed to create document tracker">>
  /\ setUploading' = <<>>
  /\ UNCHANGED <<dbVars, storage, now, role, page, uploadedFile, detailVars, loading>>
  /\ UNCHANGED sessionVars

onSubmit(data, fails) ==
  LET file == uploadedFile[1]
      row == DocumentRow(data.name, file, User, data.requires_admin_approval)
      signatoryData == SignatoryData(data.signatories, row.id)
      docs2 == Append(documents, row)
      sigs2 == document_signatories \o signatoryData
      acts2 == IF "activity" \in fails THEN document_activity
               ELSE Append(document_activity, ActivityRow(row.id, User, "created"))
      made == IF uploadedFile = Null THEN {}
              ELSE IF "document" \in fails THEN {"document"}
              ELSE IF Len(signatoryData) = 0 THEN {"document", "activity", "fetch"}
              ELSE IF "signatories" \in fails THEN {"document", "signatories"}
              ELSE {"document", "signatories", "activity", "fetch"}
  IN
  /\ page = "create"
  /\ ~loading
  /\ Len(documents) < MaxDocs
  /\ Len(document_activity) < MaxActivity
  /\ FormValid(data)
  /\ fails \subseteq made
  /\ IF uploadedFile = Null
     THEN /\ toast' = <<"Please upload a document file">>
          /\ UNCHANGED <<dbVars, page, uploadedFile, detailVars, loading>>
     ELSE IF "document" \in fails
     THEN /\ toast' = <<"Failed to create document tracker">>
          /\ UNCHANGED <<dbVars, page, uploadedFile, detailVars, loading>>
     ELSE IF Len(signatoryData) > 0 /\ "signatories" \in fails
     THEN /\ documents' = docs2
          /\ toast' = <<"Failed to create document tracker">>
          /\ UNCHANGED <<document_signatories, document_activity, page, uploadedFile,
                         detailVars, loading>>
     ELSE \* success: navigate(`/document/${document.id}`) mounts DocumentDetails
          /\ documents' = docs2
          /\ document_signatories' = sigs2
          /\ document_activity' = acts2
          /\ page' = "details"
          /\ uploadedFile' = Null
          /\ id' = row.id
          /\ document' = IF "fetch" \in fails THEN Null ELSE FetchedDocument(docs2, row.id)
          /\ signatories' = IF "fetch" \in fails THEN <<>>
                            ELSE FetchedSignatories(sigs2, row.id)
          /\ activity' = IF "fetch" \in fails THEN <<>> ELSE FetchedActivity(acts2, row.id)
          /\ loading' = FALSE
          /\ toast' = <<"Document tracker created successfully!">>
                    \o (IF "fetch" \in fails THEN <<"Failed to load document details">> ELSE <<>>)
  /\ setUploading' = <<>>
  /\ UNCHANGED <<storage, now, role>>
  /\ UNCHANGED sessionVars

\* handleSubmit(onSubmit) with values the register() rules reject: the
\* errors are shown and onSubmit is not called
SubmitInvalid ==
  /\ page = "create"
  /\ ~loading
  /\ {data \in FormData : ~FormValid(data)} # {}
  /\ toast' = <<>>
  /\ setUploading' = <<>>
  /\ UNCHANGED <<dbVars, storage, now, role, page, uploadedFile, detailVars, loading>>
  /\ UNCHANGED sessionVars

\* <form onSubmit={handleSubmit(onSubmit)}>: onSubmit runs with the values
\* only when every rule passes
Submit(data, fails) == IF FormValid(data) THEN onSubmit(data, fails) ELSE SubmitInvalid

\* a route change to /create-document mounts CreateDocument
OpenCreate ==
  /\ page = "details"
  /\ page' = "create"
  /\ uploadedFile' = Null
  /\ id' = 0
  /\ document' = Null
  /\ signatories' = <<>>
  /\ activity' = <<>>
  /\ loading' = FALSE
  /\ toast' = <<>>
  /\ setUploading' = <<>>
  /\ UNCHANGED <<dbVars, storage, now, role>>
  /\ UNCHANGED sessionVars

\* time passes
Tick ==
  /\ now < MaxTime
  /\ now' = now + 1
  /\ UNCHANGED <<dbVars, storage, role, page, uploadedFile, detailVars, loading,
                 toast, setUploading>>
  /\ UNCHANGED sessionVars

(* --------------------------- the state machine ------------------------ *)
\* rows the tables may hold before this session starts: none, or one
\* document that requires approval and awaits it (admin_approved NULL), with
\* two unsigned signatories, the second with a note
SeedDocument ==
  [id |-> 1, name |-> "Budget", file_name |-> <<"budget", "pdf">>,
   created_by |-> User, requires_admin_approval |-> TRUE,
   admin_approved |-> Null, admin_approved_by |-> Null, admin_approved_at |-> Null,
   status |-> "pending"]

SeedSignatories ==
  <<[id |-> 1, document_id |-> 1, name |-> <<"A">>, is_signed |-> FALSE,
     signed_at |-> Null, notes |-> Null, order_index |-> 0],
    [id |-> 2, document_id |-> 1, name |-> <<"B">>, is_signed |-> FALSE,
     signed_at |-> Null, notes |-> Some("n"), order_index |-> 1]>>

Init ==
  /\ \/ /\ documents = <<>>
        /\ document_signatories = <<>>
     \/ /\ documents = <<SeedDocument>>
        /\ document_signatories = SeedSignatories
  /\ document_activity = <<>>
  /\ storage = {}
  /\ now = 0
  /\ role \in Roles
  /\ page = "create"
  /\ uploadedFile = Null
  /\ id = 0
  /\ document = Null
  /\ signatories = <<>>
  /\ activity = <<>>
  /\ loading = FALSE
  /\ toast = <<>>
  /\ setUploading = <<>>
  /\ document_comments = <<>>
  /\ views = <<>>
  /\ calls = {}
  /\ started = 0

Next ==
  \/ \E d \in DocIds, fails \in SUBSET {"fetch"} : OpenDocument(d, fails)
  \/ \E i \in 1..Len(signatories), fails \in SUBSET {"signatory", "status", "activity", "fetch"} :
       MarkAsSigned(i, fails)
  \/ \E i \in 1..Len(signatories), fails \in SUBSET {"signatory", "status", "activity", "fetch"} :
       Undo(i, fails)
  \/ \E approved \in BOOLEAN, fails \in SUBSET {"update", "activity", "fetch"} :
       handleAdminApproval(approved, fails)
  \/ \E file \in Files, fails \in SUBSET {"upload"} : handleFileUpload(file, fails)
  \/ \E fails \in SUBSET {"remove"} : removeFile(fails)
  \/ \E data \in FormData, fails \in SUBSET {"document", "signatories", "activity", "fetch"} :
       onSubmit(data, fails)
  \/ SubmitInvalid
  \/ OpenCreate
  \/ Tick

Spec == Init /\ [][Next]_vars

\* the same session when no remote call returns an error
NextOk ==
  \/ \E d \in DocIds : OpenDocument(d, {})
  \/ \E i \in 1..Len(signatories) : MarkAsSigned(i, {})
  \/ \E i \in 1..Len(signatories) : Undo(i, {})
  \/ \E approved \in BOOLEAN : handleAdminApproval(approved, {})
  \/ \E file \in Files : handleFileUpload(file, {})
  \/ removeFile({})
  \/ \E data \in FormData : onSubmit(data, {})
  \/ SubmitInvalid
  \/ OpenCreate
  \/ Tick

SpecOk == Init /\ [][NextOk]_vars

\* the details page over signatory lists of every length up to MaxTotal, the
\* signed rows first: the list is fetched, then rendered
ListOf(total, completed) ==
  [i \in 1..total |->
     [id |-> i, document_id |-> 1, name |-> <<"A">>, is_signed |-> i <= completed,
      signed_at |-> SignedAtFor(i <= completed, 0), notes |-> Null,
      order_index |-> i - 1]]

\* list lengths drawn: every length up to MaxTotal, and one long list
Totals == (0..MaxTotal) \cup {LargeTotal}

InitProgress ==
  /\ documents = <<SeedDocument>>
  /\ \E total \in Totals : \E completed \in 0..total :
       /\ document_signatories = ListOf(total, completed)
       /\ signatories = ListOf(total, completed)
  /\ document_activity = <<>>
  /\ storage = {}
  /\ now = 0
  /\ role = "member"
  /\ page = "details"
  /\ uploadedFile = Null
  /\ id = 1
  /\ document = Some(SeedDocument)
  /\ activity = <<>>
  /\ loading = TRUE
  /\ toast = <<>>
  /\ setUploading = <<>>
  /\ document_comments = <<>>
  /\ views = <<>>
  /\ calls = {}
  /\ started = 0

\* finally { setLoading(false) } and the render that follows
FinishLoading ==
  /\ loading
  /\ loading' = FALSE
  /\ UNCHANGED <<dbVars, storage, now, role, page, uploadedFile, detailVars, toast,
                 setUploading>>
  /\ UNCHANGED sessionVars

SpecProgress == InitProgress /\ [][FinishLoading]_vars

\* the users who upload to the bucket: the signed-in user and another one
Users == {User, <<"u", "2">>}

\* objects the handler stored in earlier sessions, up to the instant t: each
\* under the path the handler gave it, with its uploader and its instant
StoredBefore(t) ==
  {[name |-> StoragePath(u, at, "pdf"), owner |-> u, created_at |-> at] :
     u \in Users, at \in 0..t}

\* the create page over a bucket that already holds uploads
InitUpload ==
  /\ documents = <<>>
  /\ document_signatories = <<>>
  /\ document_activity = <<>>
  /\ now \in 0..MaxTime
  /\ storage \in SUBSET StoredBefore(now)
  /\ role \in Roles
  /\ page = "create"
  /\ uploadedFile = Null
  /\ id = 0
  /\ document = Null
  /\ signatories = <<>>
  /\ activity = <<>>
  /\ loading = FALSE
  /\ toast = <<>>
  /\ setUploading = <<>>
  /\ document_comments = <<>>
  /\ views = <<>>
  /\ calls = {}
  /\ started = 0

NextUpload ==
  \/ \E file \in Files, fails \in SUBSET {"upload"} : handleFileUpload(file, fails)
  \/ \E fails \in SUBSET {"remove"} : removeFile(fails)
  \/ Tick

SpecUpload == InitUpload /\ [][NextUpload]_vars

\* the third argument of a call of updateSignatureStatus: left out, or a
\* note
NoteArgs == {Null, Some("m")}

\* (signatoryId, isSigned, notes = ''): the default stands in for an
\* argument that is left out
NotesParameter(arg) == IF arg = Null THEN "" ELSE arg[1]

\* one call of the handler with any of its arguments, on any signatory of
\* the rendered list
CallUpdateSignatureStatus(i, isSigned, arg, fails) ==
  /\ i \in 1..Len(signatories)
  /\ updateSignatureStatus(signatories[i].id, isSigned, NotesParameter(arg), fails)

\* the details page with the handler called directly; of its remote calls
\* the row update and the reload may fail
NextToggle ==
  \/ \E d \in DocIds, fails \in SUBSET {"fetch"} : OpenDocument(d, fails)
  \/ \E i \in 1..MaxSigs, isSigned \in BOOLEAN, arg \in NoteArgs,
         fails \in SUBSET {"signatory", "fetch"} :
       CallUpdateSignatureStatus(i, isSigned, arg, fails)
  \/ Tick

SpecToggle == Init /\ [][NextToggle]_vars

(* ------------------ DocumentDetails.jsx, step by step ------------------ *)
(* A call of a handler is a record of `calls`: the session, the handler,   *)
(* the remote call it is waiting for (pc), its arguments, the state of the *)
(* render it was created in (captured) and what its remote calls returned  *)
(* so far (data).  A step of a call is one remote call returning, with the *)
(* synchronous code that follows it up to the next await.                  *)

\* session 1 is the signed-in user, session 2 another user
SessionUser(s) == IF s = 1 THEN User ELSE <<"u", "2">>

\* INSERT INTO document_comments
CommentRow(docId, by, text) == [document_id |-> docId, user_id |-> by, comment |-> text]

\* the comments select: newest first
FetchedComments(rows, d) == Reverse(RowsOf(rows, d))

\* what a user types into the comment box
CommentTexts == {<<SP>>, <<"o", "k">>}

\* the useState initial values of a DocumentDetails mounted on /document/d
Mounted(by, r, d) ==
  [user |-> by, role |-> r, id |-> d, document |-> Null, signatories |-> <<>>,
   comments |-> <<>>, activity |-> <<>>, loading |-> TRUE, newComment |-> <<>>,
   submittingComment |-> FALSE, approvingDocument |-> FALSE, toast |-> ""]

Call(n, s, handler, pc, arg, captured, data) ==
  [n |-> n, s |-> s, handler |-> handler, pc |-> pc, arg |-> arg,
   captured |-> captured, data |-> data]

\* fetchDocumentDetails() called: nothing selected yet
FetchCall(n, s) ==
  Call(n, s, "fetchDocumentDetails", "document", Null, Null,
       [document |-> Null, signatories |-> <<>>, comments |-> <<>>])

\* the page of session s renders its content (lines 282 and 290 passed)
Shown(s) == ~views[s].loading /\ views[s].document # Null

Returned(c) == calls \ {c}

Moved(c, next) == (calls \ {c}) \cup {next}

\* the list the all-signed test maps over: `signatories` of the render the
\* handler was created in, not the rows of the table
GateListFromRows(local, table, d) == FetchedSignatories(table, d)

GateList(local, table, d) == local

\* a fetch whose error path does not reach setLoading(false)
fetchDocumentDetailsStepNoFinally(c, ok) ==
  /\ c.handler = "fetchDocumentDetails"
  /\ ~ok
  /\ views' = [views EXCEPT ![c.s].toast = "Failed to load document details"]
  /\ calls' = Returned(c)
  /\ UNCHANGED <<dbVars, document_comments, started, pageVars>>

\* one select of fetchDocumentDetails returns; after the fourth the four
\* lists are set; an error at any select goes to catch and finally
fetchDocumentDetailsStep(c, ok) ==
  LET v == views[c.s]
  IN
  /\ c.handler = "fetchDocumentDetails"
  /\ ok => v.id \in DocIds
  /\ IF ~ok
     THEN /\ views' = [views EXCEPT ![c.s] = [v EXCEPT !.toast = "Failed to load document details",
                                                      !.loading = FALSE]]
          /\ calls' = Returned(c)
     ELSE IF c.pc = "document"
     THEN /\ calls' = Moved(c, [c EXCEPT !.pc = "signatories",
                                         !.data.document = FetchedDocument(documents, v.id)])
          /\ UNCHANGED views
     ELSE IF c.pc = "signatories"
     THEN /\ calls' = Moved(c, [c EXCEPT !.pc = "comments",
                                         !.data.signatories =
                                            FetchedSignatories(document_signatories, v.id)])
          /\ UNCHANGED views
     ELSE IF c.pc = "comments"
     THEN /\ calls' = Moved(c, [c EXCEPT !.pc = "activity",
                                         !.data.comments =
                                            FetchedComments(document_comments, v.id)])
          /\ UNCHANGED views
     ELSE /\ views' = [views EXCEPT ![c.s] =
                         [v EXCEPT !.document = c.data.document,
                                   !.signatories = c.data.signatories,
                                   !.comments = c.data.comments,
                                   !.activity = FetchedActivity(document_activity, v.id),
                                   !.loading = FALSE]]
          /\ calls' = Returned(c)
  /\ UNCHANGED <<dbVars, document_comments, started, pageVars>>

\* updateSignatureStatus(signatoryId, isSigned, notes) is called: the row
\* update is sent
updateSignatureStatusStart(s, signatoryId, isSigned, notes) ==
  /\ Shown(s)
  /\ started < MaxStarted
  /\ started' = started + 1
  /\ calls' = calls \cup
       {Call(started + 1, s, "updateSignatureStatus", "update",
             [signatoryId |-> signatoryId, isSigned |-> isSigned, notes |-> notes],
             [signatories |-> views[s].signatories, document |-> views[s].document],
             Null)}
  /\ UNCHANGED <<dbVars, document_comments, views, pageVars>>

\* the button of signatory i of the list session s shows: Mark as Signed
\* when it is unsigned, Undo when it is signed
ToggleButton(s, i) ==
  /\ i \in 1..Len(views[s].signatories)
  /\ updateSignatureStatusStart(s, views[s].signatories[i].id,
                                ~views[s].signatories[i].is_signed, "")

\* the row update returns: on error catch; else the rendered list is
\* patched and the all-signed test is made on the captured list
updateSignatureStatusUpdated(c, ok) ==
  LET v == views[c.s]
      a == c.arg
      updated == UpdatedSignatories(
                   GateList(c.captured.signatories, document_signatories, v.id),
                   a.signatoryId, a.isSigned)
      gate == StatusGate(updated, c.captured.document[1])
  IN
  /\ c.handler = "updateSignatureStatus"
  /\ c.pc = "update"
  /\ IF ~ok
     THEN /\ views' = [views EXCEPT ![c.s] =
                         [v EXCEPT !.toast = "Failed to update signature status"]]
          /\ calls' = Returned(c)
          /\ UNCHANGED document_signatories
     ELSE /\ document_signatories' =
               UpdateSignatoryRows(document_signatories, a.signatoryId, a.isSigned,
                                   a.notes, now)
          /\ views' = [views EXCEPT ![c.s] =
                         [v EXCEPT !.signatories =
                            UpdateSignatoryRows(v.signatories, a.signatoryId, a.isSigned,
                                                a.notes, now)]]
          /\ calls' = Moved(c, [c EXCEPT !.pc = IF gate THEN "status" ELSE "activity"])
  /\ UNCHANGED <<documents, document_activity, document_comments, started, pageVars>>

\* the status update returns (its error is not read); setDocument patches
\* the rendered document
updateSignatureStatusCompleted(c, ok) ==
  LET v == views[c.s]
  IN
  /\ c.handler = "updateSignatureStatus"
  /\ c.pc = "status"
  /\ documents' = IF ok THEN SetStatus(documents, v.id, "completed") ELSE documents
  /\ views' = [views EXCEPT ![c.s] =
                 [v EXCEPT !.document = Some([v.document[1] EXCEPT !.status = "completed"])]]
  /\ calls' = Moved(c, [c EXCEPT !.pc = "activity"])
  /\ UNCHANGED <<document_signatories, document_activity, document_comments, started,
                 pageVars>>

\* the activity insert returns (its error is not read); the success toast
\* is shown and fetchDocumentDetails() is called, not awaited
updateSignatureStatusLogged(c, ok) ==
  LET v == views[c.s]
  IN
  /\ c.handler = "updateSignatureStatus"
  /\ c.pc = "activity"
  /\ document_activity' =
       IF ok THEN Append(document_activity,
                         ActivityRow(v.id, v.user, IF c.arg.isSigned THEN "signature_added"
                                                   ELSE "signature_removed"))
       ELSE document_activity
  /\ views' = [views EXCEPT ![c.s] =
                 [v EXCEPT !.toast = IF c.arg.isSigned THEN "Signature added successfully"
                                     ELSE "Signature removed successfully",
                           !.loading = TRUE]]
  /\ calls' = Moved(c, FetchCall(c.n, c.s))
  /\ UNCHANGED <<documents, document_signatories, document_comments, started, pageVars>>

\* the approve and reject buttons of session s are rendered and enabled
ApprovalOfferedIn(s) ==
  /\ Shown(s)
  /\ views[s].document[1].requires_admin_approval
  /\ views[s].document[1].admin_approved = Null
  /\ views[s].role = "admin"
  /\ ~views[s].approvingDocument

\* handleAdminApproval(approved) is called: updateData is built and the
\* document update is sent
handleAdminApprovalStart(s, approved) ==
  /\ ApprovalOfferedIn(s)
  /\ started < MaxStarted
  /\ started' = started + 1
  /\ views' = [views EXCEPT ![s].approvingDocument = TRUE]
  /\ calls' = calls \cup
       {Call(started + 1, s, "handleAdminApproval", "update",
             [approved |-> approved, by |-> views[s].user, at |-> now], Null, Null)}
  /\ UNCHANGED <<dbVars, document_comments, pageVars>>

\* the document update returns: on error catch and finally
handleAdminApprovalUpdated(c, ok) ==
  LET v == views[c.s]
  IN
  /\ c.handler = "handleAdminApproval"
  /\ c.pc = "update"
  /\ IF ~ok
     THEN /\ views' = [views EXCEPT ![c.s] =
                         [v EXCEPT !.toast = "Failed to update admin approval",
                                   !.approvingDocument = FALSE]]
          /\ calls' = Returned(c)
          /\ UNCHANGED documents
     ELSE /\ documents' = UpdateApproval(documents, v.id, c.arg.approved, c.arg.by, c.arg.at)
          /\ calls' = Moved(c, [c EXCEPT !.pc = "activity"])
          /\ UNCHANGED views
  /\ UNCHANGED <<document_signatories, document_activity, document_comments, started,
                 pageVars>>

\* the activity insert returns (its error is not read): the rendered
\* document is patched, fetchDocumentDetails() is called, finally runs
handleAdminApprovalLogged(c, ok) ==
  LET v == views[c.s]
  IN
  /\ c.handler = "handleAdminApproval"
  /\ c.pc = "activity"
  /\ document_activity' =
       IF ok THEN Append(document_activity,
                         ActivityRow(v.id, v.user, IF c.arg.approved THEN "admin_approved"
                                                   ELSE "admin_rejected"))
       ELSE document_activity
  /\ views' = [views EXCEPT ![c.s] =
                 [v EXCEPT !.document = Some(ApprovalData(v.document[1], c.arg.approved,
                                                          c.arg.by, c.arg.at)),
                           !.toast = IF c.arg.approved THEN "Document approved successfully"
                                     ELSE "Document rejected successfully",
                           !.loading = TRUE,
                           !.approvingDocument = FALSE]]
  /\ calls' = Moved(c, FetchCall(c.n, c.s))
  /\ UNCHANGED <<documents, document_signatories, document_comments, started, pageVars>>

\* onChange of the comment box
setNewComment(s, text) ==
  /\ Shown(s)
  /\ started < MaxStarted
  /\ views[s].newComment = <<>>
  /\ ~views[s].submittingComment
  /\ views' = [views EXCEPT ![s].newComment = text]
  /\ UNCHANGED <<dbVars, document_comments, calls, started, pageVars>>

\* addComment is called with a comment that is not blank: the insert is sent
addCommentStart(s) ==
  /\ Shown(s)
  /\ Trim(views[s].newComment) # <<>>
  /\ ~views[s].submittingComment
  /\ started < MaxStarted
  /\ started' = started + 1
  /\ views' = [views EXCEPT ![s].submittingComment = TRUE]
  /\ calls' = calls \cup
       {Call(started + 1, s, "addComment", "insert", Trim(views[s].newComment), Null, Null)}
  /\ UNCHANGED <<dbVars, document_comments, pageVars>>

\* the comment insert returns with the row: on error catch and finally
addCommentInserted(c, ok) ==
  LET v == views[c.s]
      row == CommentRow(v.id, v.user, c.arg)
  IN
  /\ c.handler = "addComment"
  /\ c.pc = "insert"
  /\ IF ~ok
     THEN /\ views' = [views EXCEPT ![c.s] =
                         [v EXCEPT !.toast = "Failed to add comment",
                                   !.submittingComment = FALSE]]
          /\ calls' = Returned(c)
          /\ UNCHANGED document_comments
     ELSE /\ document_comments' = Append(document_comments, row)
          /\ calls' = Moved(c, [c EXCEPT !.pc = "activity", !.data = Some(row)])
          /\ UNCHANGED views
  /\ UNCHANGED <<dbVars, started, pageVars>>

\* the activity insert returns (its error is not read): the comment is put
\* in front of the rendered list, the box is emptied, finally runs
addCommentLogged(c, ok) ==
  LET v == views[c.s]
  IN
  /\ c.handler = "addComment"
  /\ c.pc = "activity"
  /\ document_activity' =
       IF ok THEN Append(document_activity, ActivityRow(v.id, v.user, "comment_added"))
       ELSE document_activity
  /\ views' = [views EXCEPT ![c.s] =
                 [v EXCEPT !.comments = <<c.data[1]>> \o v.comments,
                           !.newComment = <<>>,
                           !.toast = "Comment added successfully",
                           !.submittingComment = FALSE]]
  /\ calls' = Returned(c)
  /\ UNCHANGED <<documents, document_signatories, document_comments, started, pageVars>>

\* the signatory rows after an earlier Mark as Signed of the first one
SeedSignedFirst == UpdateSignatoryRows(SeedSignatories, 1, TRUE, "", 0)

\* the stored document with its two signatories, none or the first of them
\* signed, and DocumentDetails just mounted on it in each of the sessions
\* 1..n: the effect has called fetchDocumentDetails
InitSessions(n) ==
  /\ documents = <<SeedDocument>>
  /\ document_signatories \in {SeedSignatories, SeedSignedFirst}
  /\ document_activity = <<>>
  /\ document_comments = <<>>
  /\ views \in {f \in [1..n -> {Mounted(SessionUser(s), r, SeedDocument.id) :
                                  s \in 1..n, r \in Roles}] :
                  /\ \A s \in 1..n : f[s].user = SessionUser(s)
                  /\ n > 1 => \A s \in 1..n : f[s].role = "admin"}
  /\ calls = {FetchCall(0, s) : s \in 1..n}
  /\ started = 0
  /\ storage = {}
  /\ now = 0
  /\ role = "member"
  /\ page = "create"
  /\ uploadedFile = Null
  /\ id = 0
  /\ document = Null
  /\ signatories = <<>>
  /\ activity = <<>>
  /\ loading = FALSE
  /\ toast = <<>>
  /\ setUploading = <<>>

\* what the users do and what returns, every remote call answering ok or
\* with an error as `answers` allows
TogglesAndApprovals(answers) ==
  \/ \E s \in DOMAIN views, i \in 1..MaxSigs : ToggleButton(s, i)
  \/ \E s \in DOMAIN views, approved \in BOOLEAN : handleAdminApprovalStart(s, approved)
  \/ \E c \in calls, ok \in answers : fetchDocumentDetailsStep(c, ok)
  \/ \E c \in calls, ok \in answers : updateSignatureStatusUpdated(c, ok)
  \/ \E c \in calls, ok \in answers : updateSignatureStatusCompleted(c, ok)
  \/ \E c \in calls, ok \in answers : updateSignatureStatusLogged(c, ok)
  \/ \E c \in calls, ok \in answers : handleAdminApprovalUpdated(c, ok)
  \/ \E c \in calls, ok \in answers : handleAdminApprovalLogged(c, ok)

Comments(answers) ==
  \/ \E s \in DOMAIN views, text \in CommentTexts : setNewComment(s, text)
  \/ \E s \in DOMAIN views : addCommentStart(s)
  \/ \E c \in calls, ok \in answers : addCommentInserted(c, ok)
  \/ \E c \in calls, ok \in answers : addCommentLogged(c, ok)

NextSessions(answers) == TogglesAndApprovals(answers) \/ Comments(answers)

\* one session, no remote call returning an error
NextSession == NextSessions({TRUE})

SpecSession == InitSessions(1) /\ [][NextSession]_vars

\* two sessions on the same document that toggle and approve, no remote
\* call returning an error
NextTwoSessions == TogglesAndApprovals({TRUE})

SpecTwoSessions == InitSessions(2) /\ [][NextTwoSessions]_vars

\* the create page beside one session of the details page, remote calls
\* returning errors or not; the tables are empty or hold the stored document
InitBusy ==
  /\ \/ /\ documents = <<>>
        /\ document_signatories = <<>>
     \/ /\ documents = <<SeedDocument>>
        /\ document_signatories = SeedSignatories
  /\ document_activity = <<>>
  /\ document_comments = <<>>
  /\ views = <<Mounted(User, "admin", SeedDocument.id)>>
  /\ calls = {FetchCall(0, 1)}
  /\ started = 0
  /\ storage = {}
  /\ now = 0
  /\ role = "admin"
  /\ page = "create"
  /\ uploadedFile = Null
  /\ id = 0
  /\ document = Null
  /\ signatories = <<>>
  /\ activity = <<>>
  /\ loading = FALSE
  /\ toast = <<>>
  /\ setUploading = <<>>

NextBusy ==
  \/ NextSessions(BOOLEAN)
  \/ \E file \in Files, fails \in SUBSET {"upload"} : handleFileUpload(file, fails)
  \/ \E data \in FormData, fails \in SUBSET {"document", "signatories", "activity", "fetch"} :
       onSubmit(data, fails)

SpecBusy == InitBusy /\ [][NextBusy]_vars

(* ------------------------------ properties ---------------------------- *)
\* the stored signatory rows of the document row r
SignatoriesOf(r) == RowsOf(document_signatories, r.id)

\* the actions of the activity rows of document d, oldest first
ActionsOf(d) ==
  [i \in 1..Len(RowsOf(document_activity, d)) |-> RowsOf(document_activity, d)[i].action]

HasAction(d, a) == \E i \in 1..Len(ActionsOf(d)) : ActionsOf(d)[i] = a

\* the document row was written by onSubmit: its 'created' row is logged
Created(r) == HasAction(r.id, "created")

\* a signatory of the document has been toggled
Toggled(r) == HasAction(r.id, "signature_added") \/ HasAction(r.id, "signature_removed")

\* every signatory signed, and approval not required or not refused
CompletionCondition(r) ==
  /\ AllSigned(SignatoriesOf(r))
  /\ (~r.requires_admin_approval \/ r.admin_approved # Some(FALSE))

\* C1: after toggles and approval actions that complete without error, a
\* document whose status is 'completed' has every signatory signed and has
\* approval not required or admin_approved not false
CompletedImpliesCondition ==
  \A i \in 1..Len(documents) :
    documents[i].status = "completed" => CompletionCondition(documents[i])

\* C2: after toggles and approval actions that complete without error, a
\* document with every signatory signed and with approval not required or
\* admin_approved not false has status 'completed'
ConditionImpliesCompleted ==
  \A i \in 1..Len(documents) :
    (Toggled(documents[i]) /\ CompletionCondition(documents[i]))
      => documents[i].status = "completed"

\* a step that turns a signed signatory row of document row r unsigned
TurnsUnsigned(r) ==
  \E j \in 1..Len(document_signatories) :
    /\ document_signatories[j].document_id = r.id
    /\ document_signatories[j].is_signed
    /\ ~document_signatories'[j].is_signed

\* C3: when a signatory of a document whose status is 'completed' is toggled
\* back to unsigned without error, the status becomes 'in_progress'
UnsignRevertsCompleted ==
  [][\A i \in 1..Len(documents) :
       (documents[i].status = "completed" /\ TurnsUnsigned(documents[i]))
         => documents'[i].status = "in_progress"]_vars

CreateThenSignBoth ==
  \A i \in 1..Len(documents) :
    (/\ Created(documents[i])
     /\ Len(SignatoriesOf(documents[i])) = 2
     /\ AllSigned(SignatoriesOf(documents[i]))
     /\ ~HasAction(documents[i].id, "signature_removed")
     /\ DetailsShown
     /\ id = documents[i].id)
      => /\ documents[i].status = "completed"
         /\ ActionsOf(documents[i].id) = <<"created", "signature_added", "signature_added">>
         /\ Progress = Some(100)

\* C6: a document produced by the creation has admin_approved unset, and it
\* stays unset until an approval action (which stamps admin_approved_at)
\* sets it
CreatedAwaitsApproval ==
  \A i \in 1..Len(documents) :
    (Created(documents[i]) /\ documents[i].admin_approved_at = Null)
      => documents[i].admin_approved = Null

\* C7: in every reachable state every signatory row has is_signed = true
\* exactly when its signed_at is non-null
SignedIffStamped ==
  \A j \in 1..Len(document_signatories) :
    document_signatories[j].is_signed <=> document_signatories[j].signed_at # Null

\* one row is signed and stamped, another was signed and toggled back
SignedAndUnsignedRows ==
  \E j, k \in 1..Len(document_signatories) :
    /\ document_signatories[j].is_signed
    /\ document_signatories[j].signed_at # Null
    /\ ~document_signatories[k].is_signed
    /\ document_signatories[k].notes = Some("")
    /\ document_signatories[k].signed_at = Null

\* num / den rounded to the nearest integer, a half going up, in exact
\* integer arithmetic
RoundHalfUp(num, den) == (2 * num + den) \div (2 * den)

\* C8: getSignatureProgress returns 100 * signed / total rounded half up
\* for every non-empty signatory list, and 0 for the empty list
ProgressIsRounded ==
  DetailsShown =>
    getSignatureProgress =
      IF Len(signatories) = 0 THEN 0
      ELSE RoundHalfUp(100 * SignedCount(signatories), Len(signatories))

\* C9: the progress percentage lies in 0..100, and for a non-empty list it
\* is 100 exactly when every signatory is signed
ProgressFullIffAllSigned ==
  DetailsShown =>
    /\ getSignatureProgress \in 0..100
    /\ Len(signatories) > 0 => (getSignatureProgress = 100 <=> AllSigned(signatories))

\* C10: a creation with a file, n signatories with non-blank names and no
\* remote error writes one document row with status 'pending', n signatory
\* rows with is_signed = false and order_index 0..n-1 in list order, and one
\* activity row 'created'
CreationWrites ==
  [][\A data \in FormData :
       (/\ onSubmit(data, {})
        /\ uploadedFile # Null
        /\ \A i \in 1..Len(data.signatories) : Trim(data.signatories[i]) # <<>>)
         => LET n == Len(data.signatories)
                newId == documents'[Len(documents')].id
            IN /\ Len(documents') = Len(documents) + 1
               /\ SubSeq(documents', 1, Len(documents)) = documents
               /\ \A i \in 1..Len(documents) : documents[i].id # newId
               /\ documents'[Len(documents')].status = "pending"
               /\ Len(document_signatories') = Len(document_signatories) + n
               /\ SubSeq(document_signatories', 1, Len(document_signatories))
                    = document_signatories
               /\ \A i \in 1..n :
                    /\ document_signatories'[Len(document_signatories) + i].document_id = newId
                    /\ document_signatories'[Len(document_signatories) + i].name
                         = data.signatories[i]
                    /\ ~document_signatories'[Len(document_signatories) + i].is_signed
                    /\ document_signatories'[Len(document_signatories) + i].order_index = i - 1
               /\ document_activity'
                    = Append(document_activity,
                             [document_id |-> newId, user_id |-> User, action |-> "created"])]_vars

\* a creation with two named signatories has just been written
CreatedWithTwoSignatories ==
  /\ Len(documents) = 1
  /\ documents[1].status = "pending"
  /\ ActionsOf(documents[1].id) = <<"created">>
  /\ Len(document_signatories) = 2
  /\ document_signatories[1].name = <<"A">>
  /\ document_signatories[1].order_index = 0
  /\ document_signatories[2].name = <<SP, "B">>
  /\ document_signatories[2].order_index = 1
  /\ ~document_signatories[1].is_signed
  /\ ~document_signatories[2].is_signed

\* C11: submitting the creation form with no uploaded file is rejected
\* before any remote write: no step taken from the create page without a
\* file changes a table, and the submit shows the rejection and stays
NoFileNoWrite ==
  [][(page = "create" /\ uploadedFile = Null)
       => /\ UNCHANGED dbVars
          /\ \A data \in FormData :
               onSubmit(data, {})
                 => /\ toast' = <<"Please upload a document file">>
                    /\ page' = "create"
                    /\ ~loading']_vars

\* the form has just been submitted without a file and rejected
RejectedWithoutFile ==
  /\ page = "create"
  /\ uploadedFile = Null
  /\ toast = <<"Please upload a document file">>
  /\ documents = <<>>
  /\ document_signatories = <<>>
  /\ document_activity = <<>>

\* the remote calls of onSubmit that may return an error
SubmitCalls == {"document", "signatories", "activity", "fetch"}

\* C12: submitting the creation form with a document name shorter than 3
\* characters is rejected by validation: onSubmit is not run and no
\* document, signatory or activity row is inserted
ShortNameRejected ==
  [][page = "create"
       => \A data \in FormData :
            Len(data.name) < 3
              => /\ \A fails \in SUBSET SubmitCalls : ~onSubmit(data, fails)
                 /\ Submit(data, {})
                      => /\ UNCHANGED dbVars
                         /\ page' = "create"
                         /\ toast' = <<>>]_vars

\* a submit with a file attached has just been stopped by validation:
\* nothing was written and no handler message is shown
StoppedByValidation ==
  /\ page = "create"
  /\ uploadedFile # Null
  /\ toast = <<>>
  /\ documents = <<>>
  /\ document_signatories = <<>>
  /\ document_activity = <<>>

\* C13: if the document insert fails during creation, the whole operation
\* fails with a user-visible error: no signatory row and no activity row is
\* inserted and no success is reported
DocumentInsertFailureAborts ==
  [][(page = "create" /\ uploadedFile # Null)
       => \A data \in FormData :
            onSubmit(data, {"document"})
              => /\ UNCHANGED dbVars
                 /\ toast' = <<"Failed to create document tracker">>
                 /\ page' = "create"
                 /\ ~loading']_vars

\* a creation has just failed at the document insert: the file is still
\* attached, the error is shown and no row exists
FailedAtDocumentInsert ==
  /\ page = "create"
  /\ uploadedFile # Null
  /\ toast = <<"Failed to create document tracker">>
  /\ documents = <<>>
  /\ document_signatories = <<>>
  /\ document_activity = <<>>

\* the entries of a list of names that hold a character other than a space
NonBlank(names) == SelectSeq(names, LAMBDA n : \E i \in 1..Len(n) : n[i] # SP)

\* the form values that pass the rules
ValidForms == {data \in FormData : FormValid(data)}

\* C14: signatory entries whose name is blank are dropped at creation: no
\* row is written for them, the remaining ones are numbered 0..k-1 with no
\* gaps, and if none remain no signatory insert is issued (so none can
\* fail) while the document and activity rows are still written
BlankSignatoriesDropped ==
  [][(page = "create" /\ uploadedFile # Null)
       => \A data \in ValidForms :
            LET kept == NonBlank(data.signatories)
                newId == documents'[Len(documents')].id
            IN /\ \A fails \in SUBSET {"activity", "fetch"} :
                    onSubmit(data, fails)
                      => /\ Len(documents') = Len(documents) + 1
                         /\ Len(document_signatories') = Len(document_signatories) + Len(kept)
                         /\ \A i \in 1..Len(kept) :
                              /\ document_signatories'[Len(document_signatories) + i].name = kept[i]
                              /\ document_signatories'[Len(document_signatories) + i].order_index
                                   = i - 1
                              /\ document_signatories'[Len(document_signatories) + i].document_id
                                   = newId
                         /\ "activity" \notin fails
                              => document_activity'
                                   = Append(document_activity,
                                            [document_id |-> newId, user_id |-> User,
                                             action |-> "created"])
               /\ kept = <<>>
                    => \A fails \in SUBSET SubmitCalls :
                         "signatories" \in fails => ~onSubmit(data, fails)]_vars

\* a document has just been created from a form whose signatory names were
\* all blank: its rows are the document and the 'created' entry alone
CreatedWithoutSignatories ==
  /\ Len(documents) = 1
  /\ Created(documents[1])
  /\ document_signatories = <<>>
  /\ page = "details"
  /\ signatories = <<>>

\* 10 MiB in bytes
TenMiB == 10485760

\* C15: a file larger than 10 MiB is rejected by handleFileUpload before any
\* storage call: no object is uploaded, uploadedFile stays unchanged and the
\* uploading flag is never set; a file of 10 MiB or less proceeds to upload
UploadSizeLimit ==
  [][(page = "create" /\ uploadedFile = Null)
       => \A file \in Files : \A fails \in SUBSET {"upload"} :
            handleFileUpload(file, fails)
              => IF file.size > TenMiB
                 THEN /\ UNCHANGED <<storage, uploadedFile>>
                      /\ setUploading' = <<>>
                      /\ toast' = <<"File size must be less than 10MB">>
                 ELSE /\ setUploading' = <<TRUE, FALSE>>
                      /\ "upload" \notin fails
                           => /\ uploadedFile' # Null
                              /\ \E o \in storage' : o.name = uploadedFile'[1].path
                              /\ toast' = <<"File uploaded successfully">>]_vars

\* a file over the limit has just been rejected: nothing is stored or
\* attached and setUploading was not called
RejectedTooBig ==
  /\ page = "create"
  /\ toast = <<"File size must be less than 10MB">>
  /\ setUploading = <<>>
  /\ uploadedFile = Null
  /\ storage = {}

\* instants and extensions over which paths are compared
Instants == {0, 1, 9, 10, 11, 100, 101}
Extensions == {"pdf", "0", "1"}

\* uploads that differ in user or in instant get different paths
PathsDiffer ==
  \A u1 \in Users, u2 \in Users, t1 \in Instants, t2 \in Instants,
     e1 \in Extensions, e2 \in Extensions :
    (u1 # u2 \/ t1 # t2) => StoragePath(u1, t1, e1) # StoragePath(u2, t2, e2)

\* C16: two accepted uploads that differ in uploading user or in upload
\* timestamp are stored under different paths, so an accepted upload leaves
\* in place every object stored by another user or at another instant
UploadsDoNotCollide ==
  [][(page = "create" /\ uploadedFile = Null /\ uploadedFile' # Null)
       => /\ PathsDiffer
          /\ \A o \in storage :
               (o.owner # User \/ o.created_at # now)
                 => o \in storage' /\ o.name # uploadedFile'[1].path]_vars

\* an upload was accepted into a bucket that holds an object of another user
\* stored at the same instant and one of the same user stored earlier
UploadedBesideOthers ==
  /\ uploadedFile # Null
  /\ \E o \in storage : o.name = uploadedFile[1].path /\ o.owner = User /\ o.created_at = now
  /\ \E o \in storage : o.owner # User /\ o.created_at = now
  /\ \E o \in storage : o.owner = User /\ o.created_at < now

\* the activity table after the acting user's one row for the action is appended
Logged(action) ==
  Append(document_activity, [document_id |-> id, user_id |-> User, action |-> action])

\* the remote calls of a toggle or an approval whose error the handler does
\* not look at: with these failing the handler still reports success
Unchecked == {"status", "activity", "fetch"}

SameBesidesApproval(r1, r2) ==
  /\ r1.id = r2.id
  /\ r1.name = r2.name
  /\ r1.file_name = r2.file_name
  /\ r1.created_by = r2.created_by
  /\ r1.requires_admin_approval = r2.requires_admin_approval
  /\ r1.status = r2.status

\* C18: an admin approval writes admin_approved, admin_approved_by and
\* admin_approved_at in one update of the document row, and leaves the
\* document's status and every signatory row unchanged
ApprovalWritesThreeColumns ==
  [][ApprovalOffered
       => \A approved \in BOOLEAN : \A fails \in SUBSET {"activity", "fetch"} :
            handleAdminApproval(approved, fails)
              => /\ UNCHANGED document_signatories
                 /\ Len(documents') = Len(documents)
                 /\ \A k \in 1..Len(documents) :
                      IF documents[k].id = id
                      THEN /\ documents'[k].admin_approved = Some(approved)
                           /\ documents'[k].admin_approved_by = Some(User)
                           /\ documents'[k].admin_approved_at = Some(now)
                           /\ SameBesidesApproval(documents'[k], documents[k])
                      ELSE documents'[k] = documents[k]]_vars

\* an approval has been written after a signature: the row holds the three
\* approval values and is still pending beside a signed signatory
ApprovedStillPending ==
  /\ toast = <<"Document approved successfully">>
  /\ \E k \in 1..Len(documents) :
       /\ documents[k].id = id
       /\ documents[k].admin_approved = Some(TRUE)
       /\ documents[k].admin_approved_by = Some(User)
       /\ documents[k].admin_approved_at # Null
       /\ documents[k].status = "pending"
       /\ \E j \in 1..Len(document_signatories) :
            document_signatories[j].document_id = id /\ document_signatories[j].is_signed

\* C19: toggling a signatory to signed records a signed_at timestamp;
\* toggling it to unsigned clears signed_at and clears its note, unless a
\* note is supplied to the toggle, and then the supplied note is stored
ToggleStoresStampAndNote ==
  [][DetailsShown
       => \A i \in 1..Len(signatories) : \A isSigned \in BOOLEAN : \A arg \in NoteArgs :
          \A fails \in SUBSET {"fetch"} :
            CallUpdateSignatureStatus(i, isSigned, arg, fails)
              => /\ Len(document_signatories') = Len(document_signatories)
                 /\ \A k \in 1..Len(document_signatories) :
                      IF document_signatories[k].id = signatories[i].id
                      THEN /\ document_signatories'[k].is_signed = isSigned
                           /\ document_signatories'[k].signed_at =
                                (IF isSigned THEN Some(now) ELSE Null)
                           /\ document_signatories'[k].notes =
                                (IF arg = Null THEN Some("") ELSE arg)
                      ELSE document_signatories'[k] = document_signatories[k]]_vars

\* after toggles to unsigned, one row holds the note that was supplied and
\* another has its earlier note cleared; neither has a signed_at
UnsignedWithAndWithoutNote ==
  /\ toast = <<"Signature removed successfully">>
  /\ \E k \in 1..Len(document_signatories) :
       /\ ~document_signatories[k].is_signed
       /\ document_signatories[k].signed_at = Null
       /\ document_signatories[k].notes = Some("m")
  /\ \E k \in 1..Len(document_signatories) :
       /\ ~document_signatories[k].is_signed
       /\ document_signatories[k].signed_at = Null
       /\ document_signatories[k].name = <<"B">>
       /\ document_signatories[k].notes = Some("")

\* C20: when the signatory row update of a toggle fails, the operation
\* stops with an error notification and is not tried again: the signatory
\* rows, the document status, the activity log and the rendered signatory
\* list are unchanged
ToggleFailureAborts ==
  [][DetailsShown
       => \A i \in 1..Len(signatories) :
            (MarkAsSigned(i, {"signatory"}) \/ Undo(i, {"signatory"}))
              => /\ UNCHANGED <<documents, document_signatories, document_activity>>
                 /\ UNCHANGED <<signatories, document, activity>>
                 /\ toast' = <<"Failed to update signature status">>]_vars

\* a toggle has just failed at its row update on a page that shows a signed
\* and an unsigned signatory
ToggleFailed ==
  /\ DetailsShown
  /\ toast = <<"Failed to update signature status">>
  /\ \E i \in 1..Len(signatories) : signatories[i].is_signed
  /\ \E i \in 1..Len(signatories) : ~signatories[i].is_signed

\* the notifications of the failure paths
ErrorToasts ==
  {"Failed to load document details", "Failed to update signature status",
   "Failed to update admin approval", "Failed to upload file",
   "Failed to create document tracker", "Please upload a document file",
   "File size must be less than 10MB"}

\* the handler showed an error and no success notification
OnlyErrorsShown(shown) ==
  shown # <<>> /\ \A k \in 1..Len(shown) : shown[k] \in ErrorToasts

\* C21: in a multi-step write sequence (toggle, approval, creation), when a
\* later write fails after an earlier one succeeded, the user is shown an
\* error for the failed step and no success notification
LaterFailureShownAsError ==
  [][/\ DetailsShown
          => \A fails \in (SUBSET Unchecked) \ {{}, {"fetch"}} :
               /\ \A i \in 1..Len(signatories) :
                    (MarkAsSigned(i, fails) \/ Undo(i, fails)) => OnlyErrorsShown(toast')
               /\ \A approved \in BOOLEAN :
                    handleAdminApproval(approved, fails) => OnlyErrorsShown(toast')
     /\ (page = "create" /\ uploadedFile # Null)
          => \A data \in ValidForms : \A fails \in {{"signatories"}, {"activity"}} :
               onSubmit(data, fails) => OnlyErrorsShown(toast')]_vars

\* C22: when the signatory insert fails after the document insert succeeded,
\* the document row stays stored with no signatory row and no 'created'
\* activity row, and the user is shown an error
PartialCreationPersists ==
  [][(page = "create" /\ uploadedFile # Null)
       => \A data \in ValidForms :
            onSubmit(data, {"signatories"})
              => /\ Len(documents') = Len(documents) + 1
                 /\ SubSeq(documents', 1, Len(documents)) = documents
                 /\ documents'[Len(documents')].name = data.name
                 /\ documents'[Len(documents')].status = "pending"
                 /\ UNCHANGED <<document_signatories, document_activity>>
                 /\ toast' = <<"Failed to create document tracker">>
                 /\ page' = "create"]_vars

\* a document row is stored with no signatory row and no activity row,
\* after a submit that showed the error
PartlyCreated ==
  /\ page = "create"
  /\ toast = <<"Failed to create document tracker">>
  /\ \E k \in 1..Len(documents) :
       /\ RowsOf(document_signatories, documents[k].id) = <<>>
       /\ RowsOf(document_activity, documents[k].id) = <<>>

\* C26: removeFile issues a delete of the stored object at the uploaded
\* path and always clears uploadedFile, also when the delete fails; after
\* it, a submit of the form is rejected for lack of a file
RemoveClearsFile ==
  [][page = "create"
       => /\ uploadedFile # Null
               => \A fails \in SUBSET {"remove"} :
                    removeFile(fails)
                      => /\ uploadedFile' = Null
                         /\ storage' = IF "remove" \in fails THEN storage
                                        ELSE {o \in storage : o.name # uploadedFile[1].path}
                         /\ UNCHANGED <<documents, document_signatories, document_activity>>
          /\ uploadedFile = Null
               => \A data \in ValidForms :
                    Submit(data, {})
                      => /\ toast' = <<"Please upload a document file">>
                         /\ UNCHANGED <<documents, document_signatories, document_activity>>
                         /\ page' = "create"]_vars

\* a submit was rejected for lack of a file after a removal whose delete
\* call failed: the object is still in the bucket, the reference is gone
RejectedAfterRemoval ==
  /\ page = "create"
  /\ uploadedFile = Null
  /\ storage # {}
  /\ toast = <<"Please upload a document file">>
  /\ documents = <<>>

\* C27: a toggle of signatory s changes only s: it can be applied to any
\* signatory shown, whatever its order_index and the state of the others,
\* and it leaves every other signatory row, and the id, name, order_index
\* and document_id of s, and the number of rows unchanged
ToggleChangesOnlyOne ==
  [][DetailsShown
       => \A i \in 1..Len(signatories) :
            /\ Len(document_activity) < MaxActivity
                 => ENABLED (MarkAsSigned(i, {}) \/ Undo(i, {}))
            /\ \A fails \in SUBSET Unchecked :
                 (MarkAsSigned(i, fails) \/ Undo(i, fails))
                   => /\ Len(document_signatories') = Len(document_signatories)
                      /\ \A k \in 1..Len(document_signatories) :
                           IF document_signatories[k].id = signatories[i].id
                           THEN /\ document_signatories'[k].id = document_signatories[k].id
                                /\ document_signatories'[k].name = document_signatories[k].name
                                /\ document_signatories'[k].order_index =
                                     document_signatories[k].order_index
                                /\ document_signatories'[k].document_id =
                                     document_signatories[k].document_id
                                /\ document_signatories'[k].is_signed =
                                     ~document_signatories[k].is_signed
                           ELSE document_signatories'[k] = document_signatories[k]]_vars

\* the second signatory in order was just signed while the first is not
SignedOutOfOrder ==
  /\ toast = <<"Signature added successfully">>
  /\ \E j, k \in 1..Len(document_signatories) :
       /\ document_signatories[j].document_id = document_signatories[k].document_id
       /\ document_signatories[j].order_index < document_signatories[k].order_index
       /\ ~document_signatories[j].is_signed
       /\ document_signatories[k].is_signed
       /\ document_signatories[k].signed_at = Some(now)

\* the call of calls' that continues call c, if c has not returned
Continues(c, next) == \E d \in next : d.n = c.n /\ d.s = c.s /\ d.pc = "status"

\* C24: with two sessions toggling signatories of one document, each session
\* tests all-signed on its own last fetched list and not on the stored rows,
\* so an interleaving ends with the stored status 'completed' while a stored
\* signatory is unsigned (the witness)
StatusFromOwnList ==
  [][\A c \in calls :
       updateSignatureStatusUpdated(c, TRUE)
         => (Continues(c, calls')
               <=> /\ \A k \in 1..Len(c.captured.signatories) :
                        IF c.captured.signatories[k].id = c.arg.signatoryId
                        THEN c.arg.isSigned
                        ELSE c.captured.signatories[k].is_signed
                   /\ c.captured.document[1].admin_approved # Some(FALSE))]_vars

\* session 1 unsigned the first signatory, then session 2 signed the second
\* one on the list it had fetched before: the stored document is completed
\* and the first stored signatory is unsigned
CompletedOnStaleList ==
  /\ calls = {}
  /\ documents[1].status = "completed"
  /\ ~document_signatories[1].is_signed
  /\ document_signatories[2].is_signed
  /\ document_activity =
       <<ActivityRow(1, SessionUser(1), "signature_removed"),
         ActivityRow(1, SessionUser(2), "signature_added")>>

\* C25: after every mutating action on the details page that completes
\* without error, the comment list and the activity list shown are the full
\* stored lists, so the activity shown holds the row the action wrote
ListsRefetched ==
  calls = {}
    => \A s \in DOMAIN views :
         /\ views[s].comments = FetchedComments(document_comments, views[s].id)
         /\ views[s].activity = FetchedActivity(document_activity, views[s].id)

\* C28: in one session, when two toggles of different signatories overlap
\* and both complete without error, leaving every signatory signed, the
\* status is 'completed' once both have finished (admin_approved not false)
BothSignedCompletes ==
  (/\ calls = {}
   /\ Len(document_activity) = 2
   /\ \A k \in 1..2 : document_activity[k].action = "signature_added"
   /\ AllSigned(document_signatories)
   /\ documents[1].admin_approved # Some(FALSE))
    => documents[1].status = "completed"

\* C29: in a single session with no other writer, once every operation and
\* every fetchDocumentDetails it started has finished without error, the
\* document and the signatory list shown equal the stored rows
ViewEqualsStored ==
  calls = {}
    => \A s \in DOMAIN views :
         /\ views[s].document = FetchedDocument(documents, views[s].id)
         /\ views[s].signatories = FetchedSignatories(document_signatories, views[s].id)

\* C30: approval is offered only to an admin, on a document that requires
\* approval, while admin_approved is unset; so admin_approved changes at
\* most once per document and a recorded decision is never reversed
DecisionNeverChanged ==
  [][\A k \in 1..Len(documents) :
       documents[k].admin_approved # Null
         => documents'[k].admin_approved = documents[k].admin_approved]_vars

\* a call of handler h of session s has not returned
Pending(s, h) == \E c \in calls : c.s = s /\ c.handler = h

\* C23: every operation, on success and on every failure path, returns its
\* busy flag to idle once its remote calls have returned: loading after
\* onSubmit, uploading after handleFileUpload, approvingDocument after
\* handleAdminApproval, submittingComment after addComment, loading after
\* fetchDocumentDetails
BusyFlagsReturn ==
  /\ \A s \in DOMAIN views :
       /\ views[s].approvingDocument => Pending(s, "handleAdminApproval")
       /\ views[s].submittingComment => Pending(s, "addComment")
       /\ views[s].loading => Pending(s, "fetchDocumentDetails")
  /\ ~loading
  /\ setUploading # <<>> => setUploading[Len(setUploading)] = FALSE

\* every call of the session has returned, the last reload with an error,
\* and an upload has failed: no flag is busy
IdleAfterFailures ==
  /\ calls = {}
  /\ started = MaxStarted
  /\ views[1].toast = "Failed to load document details"
  /\ ~views[1].loading /\ ~views[1].approvingDocument /\ ~views[1].submittingComment
  /\ document_activity # <<>>
  /\ toast = <<"Failed to upload file">>
  /\ setUploading = <<TRUE, FALSE>>

====
